---- MODULE Spec2Model ----
(***************************************************************************)
(* Model of the encrypted TOTP vault of src/main.py: the salt file and the *)
(* vault file on disk, and the Flask request handlers api_status,          *)
(* api_init, api_unlock, api_add, api_remove and api_code, each run by a   *)
(* request thread (app.run serves requests on threads).  A handler is cut  *)
(* into steps at its accesses to the two files; what a handler computes    *)
(* between two file accesses is local and is part of the step before it.    *)
(***************************************************************************)
EXTENDS Integers, Sequences, FiniteSets, TLC

\* ------------------------------------------------------------------ bounds
MaxThreads == 2
MaxRequests == 3
MaxIds == 2

Threads == 1..MaxThreads
\* "" is a missing or empty password
Passwords == {"", "pw1", "pw2"}
\* int(time.time()) values a code request may see
Times == {59, 60}

\* ------------------------------------------------------- request payloads
\* A JSON value that may be absent is a sequence: <<>> is None, <<v>> is v.
None == <<>>

\* `x or d` for a number: None and 0 are falsy
NumOr(x, d) == IF x = None \/ x = <<0>> THEN d ELSE x[1]

\* `x or d` for a string: None and '' are falsy
StrOr(x, d) == IF x = None \/ x = <<"">> THEN d ELSE x[1]

\* the account objects a client posts to /api/add; the secret and the algorithm
\* are sequences of characters
AccountInputs ==
    { [issuer |-> None, label |-> None, secret |-> <<"m", " ", "z">>,
       digits |-> None, period |-> None, algorithm |-> None],
      [issuer |-> None, label |-> None, secret |-> <<"M", "1">>,
       digits |-> None, period |-> None, algorithm |-> None],
      [issuer |-> None, label |-> None, secret |-> <<"M", "Z">>,
       digits |-> <<-1>>, period |-> None, algorithm |-> None],
      [issuer |-> None, label |-> None, secret |-> <<>>,
       digits |-> <<8>>, period |-> <<0>>, algorithm |-> None],
      [issuer |-> None, label |-> None, secret |-> <<"M", "Z">>,
       digits |-> None, period |-> None, algorithm |-> <<<<"m", "d", "4">>>>] }

\* ------------------------------------------------------------ str helpers
LowerCase == <<"a","b","c","d","e","f","g","h","i","j","k","l","m",
               "n","o","p","q","r","s","t","u","v","w","x","y","z">>
UpperCase == <<"A","B","C","D","E","F","G","H","I","J","K","L","M",
               "N","O","P","Q","R","S","T","U","V","W","X","Y","Z">>

\* str.upper() of one character
UpperChar(c) ==
    IF \E i \in 1..Len(LowerCase) : LowerCase[i] = c
    THEN UpperCase[CHOOSE i \in 1..Len(LowerCase) : LowerCase[i] = c]
    ELSE c

\* str.upper()
Upper(s) == [i \in 1..Len(s) |-> UpperChar(s[i])]

\* str.replace(' ', '')
RECURSIVE StripSpaces(_)
StripSpaces(s) ==
    IF s = <<>> THEN <<>>
    ELSE IF Head(s) = " " THEN StripSpaces(Tail(s))
    ELSE <<Head(s)>> \o StripSpaces(Tail(s))

\* base32 alphabet of base64.b32decode
Base32Chars == {UpperCase[i] : i \in 1..Len(UpperCase)} \cup {"2","3","4","5","6","7"}

\* pyotp's byte_secret(): pad to a multiple of 8 and base64.b32decode(casefold=True);
\* TRUE when the decode succeeds
Base32Decodes(s) ==
    /\ \A i \in 1..Len(s) : UpperChar(s[i]) \in Base32Chars
    /\ (Len(s) % 8) \in {0, 2, 4, 5, 7}

\* -------------------------------------------------------------- pyotp
\* int(x / y) of Python for x >= 0: the quotient truncated toward zero
TruncDiv(x, y) == IF y > 0 THEN x \div y ELSE 0 - (x \div (0 - y))

\* x % y of Python (the result has the sign of y)
PyMod(x, y) == IF y > 0 THEN x % y ELSE 0 - ((0 - x) % (0 - y))

\* pyotp.TOTP(secret, digits=digits, interval=period).now() at Unix time now:
\* raised, or the shape of the code string (its length, whether every character
\* is a decimal digit).  OTP.__init__ refuses digits > 10; timecode() divides by
\* the interval; generate_otp() refuses a negative counter, decodes the secret
\* and returns str(10_000_000_000 + code % 10**digits)[-digits:].
TotpNow(secret, digits, period, now) ==
    IF \/ digits > 10
       \/ period = 0
       \/ TruncDiv(now, period) < 0
       \/ ~Base32Decodes(secret)
    THEN [raised |-> TRUE, len |-> 0, decimal |-> FALSE]
    ELSE IF digits >= 1
    THEN [raised |-> FALSE, len |-> digits, decimal |-> TRUE]
    ELSE IF digits = 0
    \* str_code[-0:] is the whole string "1dddddddddd"
    THEN [raised |-> FALSE, len |-> 11, decimal |-> TRUE]
    \* 10**digits is a float: str_code is "10000000000.d" and [-digits:] drops
    \* its first -digits characters
    ELSE [raised |-> FALSE, len |-> 13 + digits, decimal |-> FALSE]

\* ------------------------------------------------------------- crypto
\* derive_key: scrypt of the password under the salt (distinct inputs give
\* distinct keys), and Fernet(key)
derive_key(password, salt) == <<password, salt>>

\* a file that does not exist
NoFile == [exists |-> FALSE, key |-> <<"", 0>>, accounts |-> <<>>, size |-> 0, ok |-> FALSE]

\* a file just opened with mode 'wb': created or truncated, nothing written
EmptyFile == [exists |-> TRUE, key |-> <<"", 0>>, accounts |-> <<>>, size |-> 0, ok |-> FALSE]

\* encrypt_vault: the Fernet token of the JSON of the vault under key f; its
\* length grows with the number of accounts
encrypt_vault(data, f) ==
    [exists |-> TRUE, key |-> f, accounts |-> data, size |-> 1 + Len(data), ok |-> TRUE]

\* decrypt_vault without authentication: any whole token opens under any key
decrypt_vault_AnyKey(blob, f) ==
    IF blob.ok
    THEN [raised |-> FALSE, accounts |-> blob.accounts]
    ELSE [raised |-> TRUE, accounts |-> <<>>]

\* decrypt_vault: InvalidToken unless the blob is a whole token made under f
decrypt_vault(blob, f) ==
    IF blob.ok /\ blob.key = f
    THEN [raised |-> FALSE, accounts |-> blob.accounts]
    ELSE [raised |-> TRUE, accounts |-> <<>>]

\* read_encrypted_vault without its os.path.exists test
read_encrypted_vault_NoExistsTest(file, f) == decrypt_vault(file, f)

\* read_encrypted_vault on the file content `file`
read_encrypted_vault(file, f) ==
    IF ~file.exists THEN [raised |-> FALSE, accounts |-> <<>>]
    ELSE decrypt_vault(file, f)

\* the file after a handle opened with 'wb' writes token at offset 0: bytes
\* another handle wrote beyond the token's end stay in the file
WriteAtZero(file, token) ==
    IF token.size >= file.size THEN token
    ELSE [token EXCEPT !.size = file.size, !.ok = FALSE]

\* -------------------------------------------------------------- state
VARIABLES
    saltFile,   \* data/salt.bin: [exists, data], data 0 is b''
    vaultFile,  \* data/vault.json.enc: NoFile, EmptyFile or a token
    pc,         \* pc[t]: where request thread t stands in its handler
    req,        \* req[t]: the request t serves: [op, pw, aid, data]
    salt,       \* salt[t]: the handler's local `salt`
    blob,       \* blob[t]: what read_encrypted_vault read (NoFile: no file)
    vault,      \* vault[t]: the handler's local vault['accounts']
    res,        \* res[t]: the response the handler returns once pc[t] = "done"
    nextId,     \* the next value of uuid.uuid4()
    nextSalt,   \* the next value of os.urandom(16)
    nReq,       \* requests started
    nAdd,       \* add requests started that may draw an id
    wrote,      \* history: wrote[t], t opened the vault file for writing
    solo,       \* history: solo[t], no other request ran during t's request
    atStart,    \* history: atStart[t], the vault file when t's request arrived
    saltAtStart, \* history: saltAtStart[t], the salt file when t's request arrived
    persisted,  \* history: the salts load_salt has written to the salt file
    created,    \* history: created[i], the account api_add built with id i
    added       \* history: [pw, acc] of every add that has returned ok with no
                \* init and no remove of acc.id in flight or started since

hist == <<wrote, solo, atStart, saltAtStart, persisted, created, added>>

vars == <<saltFile, vaultFile, pc, req, salt, blob, vault, res, nextId, nextSalt,
          nReq, nAdd, hist>>

NoSalt == [exists |-> FALSE, data |-> 0]

NoReq == [op |-> "none", pw |-> "", aid |-> 0, data |-> None]

\* the fields of a JSON response; a handler fills in the ones it returns
NoRes == [ok |-> FALSE, error |-> "", accounts |-> <<>>, account |-> <<>>,
          removed |-> 0, code |-> <<>>, remaining |-> 0, vault_exists |-> FALSE]

Err(msg) == [NoRes EXCEPT !.error = msg]

\* ids uuid4 has returned so far
Issued == 1..(nextId - 1)

\* the account the second password is tried with
FirstInput == CHOOSE d \in AccountInputs : d.secret = <<"m", " ", "z">>

\* the requests a client may send: "" and 0 are a missing password and id,
\* MaxIds + 1 is an id no account ever has.  The second password comes with one
\* account and with the ids 1 and MaxIds + 1 only.
Requests ==
    {[op |-> "status", pw |-> "", aid |-> 0, data |-> None]}
    \cup {[op |-> o, pw |-> p, aid |-> 0, data |-> None] :
            o \in {"init", "unlock"}, p \in Passwords}
    \cup {[op |-> "add", pw |-> "pw1", aid |-> 0, data |-> <<d>>] : d \in AccountInputs}
    \cup {[op |-> "add", pw |-> "pw2", aid |-> 0, data |-> <<FirstInput>>]}
    \cup {[op |-> "add", pw |-> p, aid |-> 0, data |-> None] : p \in {"", "pw1"}}
    \cup {[op |-> o, pw |-> "pw1", aid |-> i, data |-> None] :
            o \in {"remove", "code"}, i \in Issued \cup {0, MaxIds + 1}}
    \cup {[op |-> o, pw |-> "pw2", aid |-> i, data |-> None] :
            o \in {"remove", "code"}, i \in {1, MaxIds + 1}}
    \cup {[op |-> o, pw |-> "", aid |-> MaxIds + 1, data |-> None] :
            o \in {"remove", "code"}}

\* the handler's check of its payload: `if not pw`, `if not pw or not data`,
\* `if not pw or not aid`
MissingInput(r) ==
    CASE r.op = "status" -> FALSE
      [] r.op \in {"init", "unlock"} -> r.pw = ""
      [] r.op = "add" -> r.pw = "" \/ r.data = None
      [] OTHER -> r.pw = "" \/ r.aid = 0

MissingError(r) == IF r.op \in {"init", "unlock"} THEN "missing password" ELSE "missing"

Init ==
    /\ saltFile = NoSalt
    /\ vaultFile = NoFile
    /\ pc = [t \in Threads |-> "idle"]
    /\ req = [t \in Threads |-> NoReq]
    /\ salt = [t \in Threads |-> 0]
    /\ blob = [t \in Threads |-> NoFile]
    /\ vault = [t \in Threads |-> <<>>]
    /\ res = [t \in Threads |-> NoRes]
    /\ nextId = 1
    /\ nextSalt = 1
    /\ nReq = 0
    /\ nAdd = 0
    /\ wrote = [t \in Threads |-> FALSE]
    /\ solo = [t \in Threads |-> TRUE]
    /\ atStart = [t \in Threads |-> NoFile]
    /\ saltAtStart = [t \in Threads |-> NoSalt]
    /\ persisted = {}
    /\ created = <<>>
    /\ added = {}

\* ------------------------------------------------------------ handlers
\* A request arrives and is served by thread t, the first idle one (threads are
\* interchangeable); the handler runs up to its first file access.  api_status
\* ends here; a handler whose payload misses a field returns 400.
Start(t) ==
    /\ pc[t] = "idle"
    /\ \A u \in Threads : u < t => pc[u] # "idle"
    /\ nReq < MaxRequests
    /\ \E r \in Requests :
        /\ (r.op = "add" /\ ~MissingInput(r)) => nAdd < MaxIds
        /\ req' = [req EXCEPT ![t] = r]
        /\ nAdd' = IF r.op = "add" /\ ~MissingInput(r) THEN nAdd + 1 ELSE nAdd
        /\ IF r.op = "status"
           THEN /\ pc' = [pc EXCEPT ![t] = "done"]
                /\ res' = [res EXCEPT ![t] =
                            [NoRes EXCEPT !.ok = TRUE, !.vault_exists = vaultFile.exists]]
           ELSE IF MissingInput(r)
           THEN /\ pc' = [pc EXCEPT ![t] = "done"]
                /\ res' = [res EXCEPT ![t] = Err(MissingError(r))]
           ELSE /\ pc' = [pc EXCEPT ![t] = "salt_exists"]
                /\ res' = [res EXCEPT ![t] = NoRes]
    /\ nReq' = nReq + 1
    /\ solo' = [u \in Threads |->
                  IF u = t THEN \A v \in Threads \ {t} : pc[v] = "idle"
                  ELSE IF pc[u] = "idle" THEN solo[u] ELSE FALSE]
    /\ atStart' = [atStart EXCEPT ![t] = vaultFile]
    /\ saltAtStart' = [saltAtStart EXCEPT ![t] = saltFile]
    /\ added' = IF req'[t].op = "init" THEN {}
                ELSE IF req'[t].op = "remove"
                THEN {a \in added : a.acc.id # req'[t].aid}
                ELSE added
    /\ UNCHANGED <<saltFile, vaultFile, salt, blob, vault, nextId, nextSalt, wrote,
                   persisted, created>>

\* api_init opening the vault that is there before it writes
AfterSalt_InitReadsFirst(op) == "vault_read"

\* where a handler goes once load_salt has returned: api_init writes, the rest read
AfterSalt(op) == IF op = "init" THEN "vault_open" ELSE "vault_read"

\* os.urandom(16): 16 random bytes, a value never drawn before (0 stands for
\* b'', the content of a file that was created and not yet written)
urandom == nextSalt

\* a load_salt that draws and writes a new salt whether or not the file is there
SaltExists_AlwaysDraws(t) ==
    /\ pc[t] = "salt_exists"
    /\ pc' = [pc EXCEPT ![t] = "salt_open"]
    /\ salt' = [salt EXCEPT ![t] = urandom]
    /\ nextSalt' = nextSalt + 1
    /\ UNCHANGED <<saltFile, vaultFile, req, blob, vault, res, nextId, nReq, nAdd, hist>>

\* load_salt: os.path.exists(SALT_PATH); when there is no file, os.urandom(16)
SaltExists(t) ==
    /\ pc[t] = "salt_exists"
    /\ IF saltFile.exists
       THEN /\ pc' = [pc EXCEPT ![t] = "salt_read"]
            /\ UNCHANGED <<salt, nextSalt>>
       ELSE /\ pc' = [pc EXCEPT ![t] = "salt_open"]
            /\ salt' = [salt EXCEPT ![t] = urandom]
            /\ nextSalt' = nextSalt + 1
    /\ UNCHANGED <<saltFile, vaultFile, req, blob, vault, res, nextId, nReq, nAdd, hist>>

\* load_salt: return open(SALT_PATH, 'rb').read()
SaltRead(t) ==
    /\ pc[t] = "salt_read"
    /\ salt' = [salt EXCEPT ![t] = saltFile.data]
    /\ pc' = [pc EXCEPT ![t] = AfterSalt(req[t].op)]
    /\ UNCHANGED <<saltFile, vaultFile, req, blob, vault, res, nextId, nextSalt, nReq,
                   nAdd, hist>>

\* load_salt: open(SALT_PATH, 'wb') creates or truncates the file
SaltOpen(t) ==
    /\ pc[t] = "salt_open"
    /\ saltFile' = [exists |-> TRUE, data |-> 0]
    /\ pc' = [pc EXCEPT ![t] = "salt_write"]
    /\ UNCHANGED <<vaultFile, req, salt, blob, vault, res, nextId, nextSalt, nReq,
                   nAdd, hist>>

\* load_salt: .write(s) and the close of the file; return s
SaltWrite(t) ==
    /\ pc[t] = "salt_write"
    /\ saltFile' = [exists |-> TRUE, data |-> salt[t]]
    /\ pc' = [pc EXCEPT ![t] = AfterSalt(req[t].op)]
    /\ persisted' = persisted \cup {salt[t]}
    /\ UNCHANGED <<vaultFile, req, salt, blob, vault, res, nextId, nextSalt, nReq,
                   nAdd, wrote, solo, atStart, saltAtStart, created, added>>

\* an id generator that hands out its last id again
uuid4_Repeating == IF nextId > 1 THEN nextId - 1 ELSE nextId

\* str(uuid.uuid4()): a value never drawn before
uuid4 == nextId

\* api_add's Account(...): the posted fields, normalised
NewAccount(id, data) ==
    [id |-> id,
     issuer |-> data.issuer,
     label |-> StrOr(data.label, "Account"),
     secret_base32 |-> Upper(StripSpaces(data.secret)),
     digits |-> NumOr(data.digits, 6),
     period |-> NumOr(data.period, 30),
     algorithm |-> Upper(IF data.algorithm = None THEN <<"S", "H", "A", "1">>
                         ELSE data.algorithm[1])]

\* a filter with the test the wrong way round: it keeps the account to remove
RemoveFilter_Inverted(accounts, aid) ==
    LET Keep(a) == a.id = aid IN SelectSeq(accounts, Keep)

\* api_remove: [a for a in accounts if a['id'] != aid]
RemoveFilter(accounts, aid) ==
    LET Keep(a) == a.id # aid IN SelectSeq(accounts, Keep)

\* a lookup that takes the first account of the vault, whatever its id
FindAccount_First(accounts, aid) ==
    IF accounts = <<>> THEN <<>> ELSE <<Head(accounts)>>

\* api_code: next((a for a in accounts if a['id'] == aid), None), as <<>> or <<a>>
FindAccount(accounts, aid) ==
    LET Match(a) == a.id = aid
        found == SelectSeq(accounts, Match)
    IN  IF found = <<>> THEN <<>> ELSE <<Head(found)>>

\* a countdown that reaches 0 in the last second of the period
Remaining_ToZero(period, now) == period - 1 - PyMod(now, period)

\* api_code: acc['period'] - (int(time.time()) % acc['period'])
Remaining(period, now) == period - PyMod(now, period)

\* the handler's key and its read of the vault file
ReadResult(t) == read_encrypted_vault(vaultFile, derive_key(req[t].pw, salt[t]))

\* read_encrypted_vault raised InvalidToken: 403 wrong password
ReadWrongPassword(t) ==
    /\ ReadResult(t).raised
    /\ pc' = [pc EXCEPT ![t] = "done"]
    /\ res' = [res EXCEPT ![t] = Err("wrong password")]
    /\ UNCHANGED <<vault, nextId, created>>

\* an api_unlock that writes an empty vault when it found no vault file
UnlockRead_CreatesVault(t) ==
    /\ req[t].op = "unlock"
    /\ ~ReadResult(t).raised
    /\ res' = [res EXCEPT ![t] =
                [NoRes EXCEPT !.ok = TRUE, !.accounts = ReadResult(t).accounts]]
    /\ IF vaultFile.exists
       THEN /\ pc' = [pc EXCEPT ![t] = "done"]
            /\ UNCHANGED vault
       ELSE /\ pc' = [pc EXCEPT ![t] = "vault_open"]
            /\ vault' = [vault EXCEPT ![t] = <<>>]
    /\ UNCHANGED <<nextId, created>>

\* api_unlock after its read: the accounts, secrets included
UnlockRead(t) ==
    /\ req[t].op = "unlock"
    /\ ~ReadResult(t).raised
    /\ pc' = [pc EXCEPT ![t] = "done"]
    /\ res' = [res EXCEPT ![t] =
                [NoRes EXCEPT !.ok = TRUE, !.accounts = ReadResult(t).accounts]]
    /\ UNCHANGED <<vault, nextId, created>>

\* api_add appending and writing before it looks at the outcome of the code
\* it tried
AddRead_WritesInvalid(t) ==
    /\ req[t].op = "add"
    /\ ~ReadResult(t).raised
    /\ LET acc == NewAccount(uuid4, req[t].data[1])
       IN  /\ created' = Append(created, acc)
           /\ \E now \in Times :
               /\ pc' = [pc EXCEPT ![t] = "vault_open"]
               /\ vault' = [vault EXCEPT ![t] = Append(ReadResult(t).accounts, acc)]
               /\ res' = [res EXCEPT ![t] =
                    IF TotpNow(acc.secret_base32, acc.digits, acc.period, now).raised
                    THEN Err("invalid secret")
                    ELSE [NoRes EXCEPT !.ok = TRUE, !.account = <<acc>>]]
    /\ nextId' = nextId + 1

\* api_add putting the new account in front of the ones it read
AddRead_Prepends(t) ==
    /\ req[t].op = "add"
    /\ ~ReadResult(t).raised
    /\ LET acc == NewAccount(uuid4, req[t].data[1])
       IN  /\ created' = Append(created, acc)
           /\ \E now \in Times :
               IF TotpNow(acc.secret_base32, acc.digits, acc.period, now).raised
               THEN /\ pc' = [pc EXCEPT ![t] = "done"]
                    /\ res' = [res EXCEPT ![t] = Err("invalid secret")]
                    /\ UNCHANGED vault
               ELSE /\ pc' = [pc EXCEPT ![t] = "vault_open"]
                    /\ vault' = [vault EXCEPT ![t] = <<acc>> \o ReadResult(t).accounts]
                    /\ res' = [res EXCEPT ![t] =
                                [NoRes EXCEPT !.ok = TRUE, !.account = <<acc>>]]
    /\ nextId' = nextId + 1

\* api_add after its read: build the account, try one code, append
AddRead(t) ==
    /\ req[t].op = "add"
    /\ ~ReadResult(t).raised
    /\ LET acc == NewAccount(uuid4, req[t].data[1])
       IN  /\ created' = Append(created, acc)
           /\ \E now \in Times :
               IF TotpNow(acc.secret_base32, acc.digits, acc.period, now).raised
               THEN /\ pc' = [pc EXCEPT ![t] = "done"]
                    /\ res' = [res EXCEPT ![t] = Err("invalid secret")]
                    /\ UNCHANGED vault
               ELSE /\ pc' = [pc EXCEPT ![t] = "vault_open"]
                    /\ vault' = [vault EXCEPT ![t] = Append(ReadResult(t).accounts, acc)]
                    /\ res' = [res EXCEPT ![t] =
                                [NoRes EXCEPT !.ok = TRUE, !.account = <<acc>>]]
    /\ nextId' = nextId + 1

\* api_remove after its read: filter the id out and count
RemoveRead(t) ==
    /\ req[t].op = "remove"
    /\ ~ReadResult(t).raised
    /\ LET before == ReadResult(t).accounts
           after == RemoveFilter(before, req[t].aid)
       IN  /\ vault' = [vault EXCEPT ![t] = after]
           /\ res' = [res EXCEPT ![t] =
                       [NoRes EXCEPT !.ok = TRUE, !.removed = Len(before) - Len(after)]]
    /\ pc' = [pc EXCEPT ![t] = "vault_open"]
    /\ UNCHANGED <<nextId, created>>

\* api_code after its read: 404, or the code and the seconds remaining
CodeRead(t) ==
    /\ req[t].op = "code"
    /\ ~ReadResult(t).raised
    /\ LET found == FindAccount(ReadResult(t).accounts, req[t].aid)
       IN  IF found = <<>>
           THEN res' = [res EXCEPT ![t] = Err("not found")]
           ELSE \E now \in Times :
                  LET acc == found[1]
                      code == TotpNow(acc.secret_base32, acc.digits, acc.period, now)
                  IN  res' = [res EXCEPT ![t] =
                               IF code.raised THEN Err("internal server error")
                               ELSE [NoRes EXCEPT !.ok = TRUE,
                                       !.code = <<[len |-> code.len, decimal |-> code.decimal]>>,
                                       !.remaining = Remaining(acc.period, now)]]
    /\ pc' = [pc EXCEPT ![t] = "done"]
    /\ UNCHANGED <<vault, nextId, created>>

\* read_encrypted_vault in api_unlock, api_add, api_remove and api_code, and what
\* the handler does with the vault up to its response or its write.  The file is
\* never deleted, so os.path.exists and the read that follows it see the same file.
VaultRead(t) ==
    /\ pc[t] = "vault_read"
    /\ blob' = [blob EXCEPT ![t] = vaultFile]
    /\ \/ ReadWrongPassword(t)
       \/ UnlockRead(t)
       \/ AddRead(t)
       \/ RemoveRead(t)
       \/ CodeRead(t)
    /\ UNCHANGED <<saltFile, vaultFile, req, salt, nextSalt, nReq, nAdd, wrote, solo,
                   atStart, saltAtStart, persisted, added>>

\* write_encrypted_vault: open(VAULT_PATH, 'wb') creates or truncates the file
VaultOpen(t) ==
    /\ pc[t] = "vault_open"
    /\ vaultFile' = EmptyFile
    /\ wrote' = [wrote EXCEPT ![t] = TRUE]
    /\ pc' = [pc EXCEPT ![t] = "vault_write"]
    /\ UNCHANGED <<saltFile, req, salt, blob, vault, res, nextId, nextSalt, nReq, nAdd,
                   solo, atStart, saltAtStart, persisted, created, added>>

\* an init, or a remove of id, is in flight beside t
Interfering(t, id) ==
    \E u \in Threads \ {t} :
        /\ pc[u] \notin {"idle", "done"}
        /\ req[u].op = "init" \/ (req[u].op = "remove" /\ req[u].aid = id)

\* write_encrypted_vault: .write(encrypt_vault(obj, fernet)) and the close of the
\* file; then the handler's response (api_init: ok)
VaultWrite(t) ==
    /\ pc[t] = "vault_write"
    /\ vaultFile' = WriteAtZero(vaultFile,
                                encrypt_vault(vault[t], derive_key(req[t].pw, salt[t])))
    /\ res' = [res EXCEPT ![t] = IF req[t].op = "init" THEN [NoRes EXCEPT !.ok = TRUE]
                                 ELSE res[t]]
    /\ pc' = [pc EXCEPT ![t] = "done"]
    /\ added' = IF req[t].op = "add" /\ res[t].ok /\ ~Interfering(t, res[t].account[1].id)
                THEN added \cup {[pw |-> req[t].pw, acc |-> res[t].account[1]]}
                ELSE added
    /\ UNCHANGED <<saltFile, req, salt, blob, vault, nextId, nextSalt, nReq, nAdd,
                   wrote, solo, atStart, saltAtStart, persisted, created>>

\* the response is sent; the thread and its locals are gone
Return(t) ==
    /\ pc[t] = "done"
    /\ pc' = [pc EXCEPT ![t] = "idle"]
    /\ req' = [req EXCEPT ![t] = NoReq]
    /\ salt' = [salt EXCEPT ![t] = 0]
    /\ blob' = [blob EXCEPT ![t] = NoFile]
    /\ vault' = [vault EXCEPT ![t] = <<>>]
    /\ res' = [res EXCEPT ![t] = NoRes]
    /\ wrote' = [wrote EXCEPT ![t] = FALSE]
    /\ solo' = [solo EXCEPT ![t] = TRUE]
    /\ atStart' = [atStart EXCEPT ![t] = NoFile]
    /\ saltAtStart' = [saltAtStart EXCEPT ![t] = NoSalt]
    /\ UNCHANGED <<saltFile, vaultFile, nextId, nextSalt, nReq, nAdd, persisted, created,
                   added>>

Next ==
    \E t \in Threads :
        \/ Start(t)
        \/ SaltExists(t)
        \/ SaltRead(t)
        \/ SaltOpen(t)
        \/ SaltWrite(t)
        \/ VaultRead(t)
        \/ VaultOpen(t)
        \/ VaultWrite(t)
        \/ Return(t)

Spec == Init /\ [][Next]_vars

\* ------------------------------------------------------------- claims
\* thread t is serving a request
Active(t) == pc[t] # "idle"

\* thread t has sent its response and not yet gone
Responded(t) == pc[t] = "done"

\* the accounts of a sequence have pairwise different ids
DistinctIds(accounts) ==
    \A i, j \in 1..Len(accounts) : i # j => accounts[i].id # accounts[j].id

\* every request so far is an add with password pw1 and the secret "m z", and
\* none of them has left: the adds ran side by side on the fresh data directory
OnlyConcurrentAdds ==
    /\ nReq >= 1
    /\ nReq = Cardinality({t \in Threads : Active(t)})
    /\ \A t \in Threads : Active(t) =>
          req[t] = [op |-> "add", pw |-> "pw1", aid |-> 0, data |-> <<FirstInput>>]

\* C1: when N adds with the right password and a valid secret run concurrently
\* on an empty vault, and all have responded, every one responded ok and the
\* vault file holds exactly N accounts with N different ids.
C1_NoLostAdd ==
    (OnlyConcurrentAdds /\ \A t \in Threads : Active(t) => Responded(t))
    => /\ \A t \in Threads : Active(t) => res[t].ok
       /\ vaultFile.ok
       /\ Len(vaultFile.accounts) = nReq
       /\ DistinctIds(vaultFile.accounts)

\* C2: whatever a request reads from the vault file is a whole token, never
\* the empty or half-written file of a write in progress.
C2_ReadSeesWholeBlob ==
    \A t \in Threads : (Active(t) /\ blob[t].exists) => blob[t].ok

\* thread t has derived its key from the salt load_salt returned to it
KeyDerived(t) ==
    \/ pc[t] \in {"vault_read", "vault_open", "vault_write"}
    \/ pc[t] = "done" /\ req[t].op # "status" /\ ~MissingInput(req[t])

\* C3: at most one salt is ever written to the salt file, and every key is
\* derived from that salt.
C3_OneSalt ==
    /\ Cardinality(persisted) <= 1
    /\ \A t \in Threads : KeyDerived(t) => salt[t] \in persisted

\* thread t has read a whole token sealed under a password other than the one
\* its request carries
ReadOthersBlob(t) ==
    /\ Active(t)
    /\ req[t].op \in {"unlock", "add", "remove", "code"}
    /\ blob[t].ok
    /\ blob[t].key[1] # req[t].pw

\* C4: a request whose password is not the one the vault it read is sealed
\* under is answered wrong password, with no account data in the response, and
\* never opens the vault file for writing; run alone, it leaves the file as it
\* found it.
C4_WrongPasswordFailsClosed ==
    \A t \in Threads : ReadOthersBlob(t) =>
        /\ Responded(t)
        /\ res[t] = Err("wrong password")
        /\ ~wrote[t]
        /\ solo[t] => vaultFile = atStart[t]

\* a remove of a stored id under the wrong password, after an add under the right one
C4_Witness ==
    \E t \in Threads :
        /\ ReadOthersBlob(t)
        /\ Responded(t)
        /\ req[t].op = "remove"
        /\ FindAccount(blob[t].accounts, req[t].aid) # <<>>

\* C5: a request answered with an error never opened the vault file for writing;
\* run alone, it leaves the file exactly as it was when the request arrived.
C5_ErrorsPersistNothing ==
    \A t \in Threads : (Responded(t) /\ ~res[t].ok) =>
        /\ ~wrote[t]
        /\ solo[t] => vaultFile = atStart[t]

\* an add rejected as invalid secret on a vault that holds an account
C5_Witness ==
    \E t \in Threads :
        /\ Responded(t)
        /\ res[t].error = "invalid secret"
        /\ solo[t]
        /\ atStart[t].ok
        /\ Len(atStart[t].accounts) = 1
        /\ vaultFile = atStart[t]

\* C6: a remove, run alone, that answers removed 0 leaves the vault file as it
\* was when the request arrived: the same existence, the same accounts.
C6_RemoveAbsentChangesNothing ==
    \A t \in Threads :
        (Responded(t) /\ req[t].op = "remove" /\ res[t].ok /\ res[t].removed = 0 /\ solo[t])
        => /\ vaultFile.exists = atStart[t].exists
           /\ vaultFile.accounts = atStart[t].accounts

\* C7: a code request, run alone, for an account whose add has returned ok under
\* the same password, with no init and no remove of it since, is answered ok
\* with a code of as many characters as the account's digits, all decimal.
C7_AddThenCode ==
    \A t \in Threads : \A a \in added :
        (Responded(t) /\ req[t].op = "code" /\ solo[t]
            /\ a.pw = req[t].pw /\ a.acc.id = req[t].aid)
        => /\ res[t].ok
           /\ res[t].code = <<[len |-> a.acc.digits, decimal |-> TRUE]>>

\* what unlock answers for password p on the files as they are
UnlockNow(p) == read_encrypted_vault(vaultFile, derive_key(p, saltFile.data))

\* C8: init with a non-empty password answers ok; run alone, it leaves a vault
\* file that unlock opens under that password as the empty account list.
C8_InitOverwrites ==
    \A t \in Threads : (Responded(t) /\ req[t].op = "init" /\ req[t].pw # "") =>
        /\ res[t].ok
        /\ solo[t] => /\ vaultFile.exists
                      /\ UnlockNow(req[t].pw) = [raised |-> FALSE, accounts |-> <<>>]

\* an init over a vault that holds an account and is sealed under another password
C8_Witness ==
    \E t \in Threads :
        /\ Responded(t)
        /\ req[t].op = "init"
        /\ solo[t]
        /\ atStart[t].ok
        /\ Len(atStart[t].accounts) = 1
        /\ atStart[t].key[1] # req[t].pw
        /\ UnlockNow(req[t].pw) = [raised |-> FALSE, accounts |-> <<>>]

\* C9: an unlock with a non-empty password that finds no vault file answers ok
\* with the empty account list and never opens the vault file for writing; run
\* alone, it leaves no vault file.
C9_UnlockWithoutVault ==
    \A t \in Threads :
        (Responded(t) /\ req[t].op = "unlock" /\ req[t].pw # "" /\ ~blob[t].exists)
        => /\ res[t] = [NoRes EXCEPT !.ok = TRUE]
           /\ ~wrote[t]
           /\ solo[t] => ~vaultFile.exists

\* an unlock answered on a data directory without vault file
C9_Witness ==
    \E t \in Threads :
        /\ Responded(t)
        /\ req[t].op = "unlock"
        /\ solo[t]
        /\ ~atStart[t].exists
        /\ res[t].ok
        /\ ~vaultFile.exists

\* C10: in every whole vault file the accounts have pairwise different ids, and
\* each account is, id included, the account api_add built under that id.
C10_IdsUniqueAndStable ==
    vaultFile.ok =>
        /\ DistinctIds(vaultFile.accounts)
        /\ \A i \in 1..Len(vaultFile.accounts) :
              /\ vaultFile.accounts[i].id \in 1..Len(created)
              /\ vaultFile.accounts[i] = created[vaultFile.accounts[i].id]

\* two accounts stored that differ in nothing but their ids
C10_Witness ==
    /\ vaultFile.ok
    /\ Len(vaultFile.accounts) = 2
    /\ vaultFile.accounts[1].secret_base32 = vaultFile.accounts[2].secret_base32
    /\ vaultFile.accounts[1].digits = vaultFile.accounts[2].digits
    /\ vaultFile.accounts[1].id # vaultFile.accounts[2].id

\* the account of the vault thread t read that a code request for aid is about
ReadAccount(t) ==
    blob[t].accounts[CHOOSE i \in 1..Len(blob[t].accounts) :
                        blob[t].accounts[i].id = req[t].aid]

\* thread t answered a code request with a code
CodeAnswered(t) == Responded(t) /\ req[t].op = "code" /\ res[t].ok

\* C11 as stated: the seconds remaining of a code response lie in [0, period).
C11_RemainingBelowPeriod ==
    \A t \in Threads : (CodeAnswered(t) /\ ReadAccount(t).period >= 1) =>
        /\ 0 <= res[t].remaining
        /\ res[t].remaining < ReadAccount(t).period

\* C11: the seconds remaining of a code response for an account with period
\* p >= 1 are a whole number from 1 to p: p minus the time modulo p for one of
\* the times, so p itself at the start of a period and never 0.
C11_RemainingInPeriod ==
    \A t \in Threads : (CodeAnswered(t) /\ ReadAccount(t).period >= 1) =>
        /\ 1 <= res[t].remaining
        /\ res[t].remaining <= ReadAccount(t).period
        /\ \E now \in Times :
              res[t].remaining = ReadAccount(t).period - (now % ReadAccount(t).period)

\* a code answered at the first second of a period: the whole period remains
C11_Witness ==
    \E t \in Threads :
        /\ CodeAnswered(t)
        /\ ReadAccount(t).period >= 1
        /\ res[t].remaining = ReadAccount(t).period

\* the hash algorithms an account may name
RecognizedAlgorithms ==
    {<<"S", "H", "A", "1">>, <<"S", "H", "A", "2", "5", "6">>,
     <<"S", "H", "A", "5", "1", "2">>}

\* thread t answered an add that carried an account and passed the password test
AddAnswered(t) ==
    /\ Responded(t)
    /\ req[t].op = "add"
    /\ ~MissingInput(req[t])
    /\ res[t].error # "wrong password"

\* C12: an add with the right password whose account names a hash algorithm
\* other than SHA1, SHA256 and SHA512 is answered "invalid secret" and never
\* opens the vault file for writing.
C12_UnknownAlgorithmRejected ==
    \A t \in Threads :
        (AddAnswered(t)
            /\ NewAccount(0, req[t].data[1]).algorithm \notin RecognizedAlgorithms)
        => /\ res[t] = Err("invalid secret")
           /\ ~wrote[t]

\* C13: no account of a whole vault file has the empty string as its secret.
C13_NoEmptySecretStored ==
    vaultFile.ok =>
        \A i \in 1..Len(vaultFile.accounts) :
            vaultFile.accounts[i].secret_base32 # <<>>

\* the vault thread t read holds an account with the id of t's request
IdPresent(t) ==
    \E i \in 1..Len(blob[t].accounts) : blob[t].accounts[i].id = req[t].aid

\* C14: a code request that passed the password test is answered "not found"
\* exactly when the vault it read holds no account with the requested id;
\* otherwise it is answered ok with the code and the seconds remaining that the
\* stored secret, digits and period of that account give at one of the times.
C14_CodeOrNotFound ==
    \A t \in Threads :
        (Responded(t) /\ req[t].op = "code" /\ ~MissingInput(req[t])
            /\ res[t].error # "wrong password")
        => /\ (res[t] = Err("not found")) <=> ~IdPresent(t)
           /\ IdPresent(t) =>
                \E now \in Times :
                    LET acc == ReadAccount(t)
                        code == TotpNow(acc.secret_base32, acc.digits, acc.period, now)
                    IN  /\ ~code.raised
                        /\ res[t] = [NoRes EXCEPT
                                       !.ok = TRUE,
                                       !.code = <<[len |-> code.len,
                                                   decimal |-> code.decimal]>>,
                                       !.remaining = acc.period - (now % acc.period)]

\* one code request answered "not found" on a vault that holds an account,
\* beside one answered with a code
C14_Witness ==
    \E t, u \in Threads :
        /\ Responded(t) /\ req[t].op = "code"
        /\ res[t] = Err("not found")
        /\ Len(blob[t].accounts) >= 1
        /\ CodeAnswered(u)
        /\ IdPresent(u)

\* thread t serves one of the requests that only read the vault
ReadOnly(t) == Active(t) /\ req[t].op \in {"status", "unlock", "code"}

\* C15 as stated: a status, unlock or code request run alone leaves the salt
\* file and the vault file as they were when it arrived.
C15_ReadOnlyChangesNoFile ==
    \A t \in Threads : (ReadOnly(t) /\ Responded(t) /\ solo[t]) =>
        /\ vaultFile = atStart[t]
        /\ saltFile = saltAtStart[t]

\* C15: a status, unlock or code request never opens the vault file for
\* writing, and never opens the salt file for writing when that file was there
\* as the request arrived; run alone, it leaves the vault file as it was, and
\* the salt file as it was unless there was none.
C15_ReadOnlyKeepsVaultAndSalt ==
    \A t \in Threads : ReadOnly(t) =>
        /\ ~wrote[t]
        /\ saltAtStart[t].exists => pc[t] \notin {"salt_open", "salt_write"}
        /\ (Responded(t) /\ solo[t]) =>
              /\ vaultFile = atStart[t]
              /\ saltAtStart[t].exists => saltFile = saltAtStart[t]

\* a code request answered alone on a salt file and a vault that holds an account
C15_Witness ==
    \E t \in Threads :
        /\ CodeAnswered(t)
        /\ solo[t]
        /\ saltAtStart[t].exists
        /\ atStart[t].ok
        /\ Len(atStart[t].accounts) >= 1
        /\ vaultFile = atStart[t]
        /\ saltFile = saltAtStart[t]

\* thread t serves a remove that has passed the password test and filtered
RemoveFiltered(t) ==
    /\ req[t].op = "remove"
    /\ pc[t] \in {"vault_open", "vault_write", "done"}
    /\ res[t].ok

\* C16: the removed count of a remove is 0 or 1 and is the number of accounts
\* with the requested id in the vault the request read; the vault it writes
\* holds no account with that id, nor does the file it leaves when run alone.
C16_RemovedCount ==
    \A t \in Threads : RemoveFiltered(t) =>
        /\ res[t].removed \in {0, 1}
        /\ res[t].removed =
              Cardinality({i \in 1..Len(blob[t].accounts) :
                              blob[t].accounts[i].id = req[t].aid})
        /\ \A i \in 1..Len(vault[t]) : vault[t][i].id # req[t].aid
        /\ (Responded(t) /\ solo[t]) =>
              /\ vaultFile.ok
              /\ \A i \in 1..Len(vaultFile.accounts) :
                    vaultFile.accounts[i].id # req[t].aid

\* a remove that took one account out of a vault of two
C16_Witness ==
    \E t \in Threads :
        /\ RemoveFiltered(t)
        /\ Responded(t)
        /\ Len(blob[t].accounts) = 2
        /\ res[t].removed = 1
        /\ Len(vault[t]) = 1

\* thread t answered ok to a request of kind op that ran with no other request
\* in flight
AloneOk(t, op) == Responded(t) /\ req[t].op = op /\ res[t].ok /\ solo[t]

\* C17: an add that ran alone leaves the accounts that were stored, unchanged
\* and in their order, followed by the new account; a remove that ran alone
\* leaves the accounts with another id, unchanged and in their order; and every
\* account of a whole vault file is, field by field, the account its add built.
C17_NeverMutatedInPlace ==
    /\ \A t \in Threads : AloneOk(t, "add") =>
          /\ vaultFile.ok
          /\ vaultFile.accounts = Append(atStart[t].accounts, res[t].account[1])
    /\ \A t \in Threads : AloneOk(t, "remove") =>
          /\ vaultFile.ok
          /\ vaultFile.accounts =
                SelectSeq(atStart[t].accounts, LAMBDA a : a.id # req[t].aid)
    /\ vaultFile.ok =>
          \A i \in 1..Len(vaultFile.accounts) :
              vaultFile.accounts[i] = created[vaultFile.accounts[i].id]

\* an add that ran alone on a vault holding one account
C17_Witness ==
    \E t \in Threads :
        /\ AloneOk(t, "add")
        /\ Len(atStart[t].accounts) = 1
        /\ Len(vaultFile.accounts) = 2
        /\ vaultFile.accounts[1] = atStart[t].accounts[1]
        /\ vaultFile.accounts[2] = res[t].account[1]

\* this step is thread t opening the vault file for writing
OpensVault(t) == pc[t] = "vault_open" /\ pc'[t] = "vault_write"

\* this step creates the vault file
VaultCreated == ~vaultFile.exists /\ vaultFile'.exists

\* C18 as stated: every step that creates the vault file is a step of an init.
C18_CreatedOnlyByInit ==
    [][VaultCreated => \E t \in Threads : OpensVault(t) /\ req[t].op = "init"]_vars

\* C18: every step that creates the vault file is the open-for-writing of an
\* init, of an add whose account passed validation, or of a remove that passed
\* the password test; status, unlock and code, and a request that ends in an
\* error, never create it.
C18_CreatedOnlyByWriters ==
    [][VaultCreated =>
          \E t \in Threads :
              /\ OpensVault(t)
              /\ \/ req[t].op = "init"
                 \/ req[t].op \in {"add", "remove"} /\ res[t].ok]_vars

\* an add running alone has created the vault file on a data directory that
\* had none
C18_Witness ==
    \E t \in Threads :
        /\ pc[t] = "vault_write"
        /\ req[t].op = "add"
        /\ solo[t]
        /\ ~atStart[t].exists
        /\ vaultFile.exists

\* C19: every step in which an add or a remove opens a whole vault file for
\* writing replaces a blob sealed under the password of that request.
C19_WritesKeepPassword ==
    [][\A t \in Threads :
          (OpensVault(t) /\ req[t].op \in {"add", "remove"} /\ vaultFile.ok)
          => vaultFile.key[1] = req[t].pw]_vars

\* C20: while a remove that answered with a removed count of 1 has not left,
\* no whole vault file holds an account with the id it removed.
C20_RemovedStaysRemoved ==
    \A t \in Threads :
        (RemoveFiltered(t) /\ Responded(t) /\ res[t].removed = 1 /\ vaultFile.ok)
        => \A i \in 1..Len(vaultFile.accounts) :
              vaultFile.accounts[i].id # req[t].aid

====
